---- MODULE Spec2Model ----
(***************************************************************************)
(* A model of helpers.py: the Twitter dataframe helpers.                   *)
(*                                                                         *)
(*   SpecFormat  one format_df pass over a small dataset, on the eager     *)
(*               (Pandas) or the lazy (Dask) backend, with the per-row     *)
(*               functions make_tweet_url, get_image_url, get_image_html   *)
(*               and find_tweet_type, and the schema map TWITTER_DTYPES.   *)
(*   SpecData    the TWITTER_DT helper object (the tracked timestamp       *)
(*               columns, incl_date, remove_date, the columns property)    *)
(*               and the loaders of the Data object.                       *)
(***************************************************************************)
EXTENDS Naturals, Sequences, FiniteSets, TLC

VARIABLES
    \* ---- TWITTER_DT and Data (SpecData) ----
    heap,          \* the list objects: internal (cls._columns) and returned
    got,           \* the list object a caller holds from TWITTER_DT.columns
    parse_dates,   \* parse_dates= of the last dd.read_csv call
    date_format,   \* date_format= of the last dd.read_csv call
    resampled,     \* the arguments of the last pd.read_csv call of read_resampled_df
    lastOp,        \* the operation that ran last
    lastToggle,    \* the last of incl_date and remove_date that ran ("none")
    before,        \* cls._columns as it was when the last operation began
    callArg,       \* the index_col argument the last read_resampled_df call was given
    dt_exc,        \* the exception the last operation let escape ("none")
    \* ---- format_df (SpecFormat) ----
    backend,       \* "pandas" or "dask"
    incl_html,     \* the incl_html argument
    input,         \* the dataset as it was passed in
    df,            \* the dataset: its columns and (Pandas) its rows
    graph,         \* Dask: the per-row operations not yet evaluated
    pc,            \* the position in format_df
    exc,           \* the exception that escaped ("none")
    username,      \* format_df's local variable username
    reads,         \* per finished step: the columns it read and those written before it
    result,        \* the rows of the returned dataset, once evaluated
    eager          \* what the Pandas pass over the same input gave

dataVars == <<heap, got, parse_dates, date_format, resampled, lastOp,
              lastToggle, before, callArg, dt_exc>>
formatVars == <<backend, incl_html, input, df, graph, pc, exc, username, reads,
                result, eager>>
vars == <<dataVars, formatVars>>

Range(s) == {s[i] : i \in DOMAIN s}

\* --------------------------------------------------------------------------
\* Bounds of the model
\* --------------------------------------------------------------------------

\* the number of list entries beyond the five fixed ones (incl_date and the
\* caller's appends stop there)
MaxExtra == 2

\* the number of rows of a dataset
MaxRows == 2

\* --------------------------------------------------------------------------
\* TWITTER_DT
\* --------------------------------------------------------------------------

NONE == "none"

\* TWITTER_DT.parse
parse == "%Y-%m-%dT%H:%M:%S.%fZ"

\* TWITTER_DT._columns as the class body sets it
TWITTER_DT_columns ==
    << "attachments.poll.end_datetime",
       "author.created_at",
       "created_at",
       "edit_controls.editable_until",
       "__twarc.retrieved_at" >>

\* list.index: the first position of x in s, 0 when x is not in s
RECURSIVE list_index(_, _, _)
list_index(s, x, i) ==
    IF i > Len(s) THEN 0
    ELSE IF s[i] = x THEN i
    ELSE list_index(s, x, i + 1)

\* list.remove(x): removes the first x; raises ValueError when there is none
list_remove(s, x) ==
    LET i == list_index(s, x, 1) IN
    IF i = 0 THEN [exc |-> "ValueError", list |-> s]
    ELSE [exc |-> NONE,
          list |-> SubSeq(s, 1, i - 1) \o SubSeq(s, i + 1, Len(s))]

\* list.append(x)
list_append(s, x) == Append(s, x)

\* TWITTER_DT.incl_date on the list cls._columns
incl_date(cols) == list_append(cols, "date")

remove_date_uncaught(cols) == list_remove(cols, "date")

\* TWITTER_DT.remove_date on the list cls._columns: the ValueError of
\* list.remove is caught and dropped
remove_date(cols) ==
    LET r == list_remove(cols, "date") IN
    IF r.exc = "ValueError" THEN [exc |-> NONE, list |-> cols]
    ELSE r

columns_alias(h, slot) == [heap |-> h, ref |-> "internal"]

\* the property TWITTER_DT.columns: a new list object (in `slot`) holding
\* the entries of cls._columns, and the reference to it
columns(h, slot) ==
    [heap |-> [h EXCEPT ![slot] = h.internal], ref |-> slot]

\* the entries the model's callers write into a list they hold
CallerValues == {"date", "junk"}

InclDate ==
    /\ Len(heap.internal) < Len(TWITTER_DT_columns) + MaxExtra
    /\ heap' = [heap EXCEPT !.internal = incl_date(heap.internal)]
    /\ before' = heap.internal
    /\ lastOp' = "incl_date"
    /\ lastToggle' = "incl_date"
    /\ dt_exc' = NONE
    /\ UNCHANGED <<got, parse_dates, date_format, resampled, callArg>>

RemoveDate ==
    LET r == remove_date(heap.internal) IN
    /\ heap' = [heap EXCEPT !.internal = r.list]
    /\ before' = heap.internal
    /\ lastOp' = "remove_date"
    /\ lastToggle' = "remove_date"
    /\ dt_exc' = r.exc
    /\ UNCHANGED <<got, parse_dates, date_format, resampled, callArg>>

\* a caller reads TWITTER_DT.columns and keeps the list
Columns ==
    LET r == columns(heap, "returned") IN
    /\ heap' = r.heap
    /\ got' = r.ref
    /\ before' = heap.internal
    /\ lastOp' = "columns"
    /\ dt_exc' = NONE
    /\ UNCHANGED <<parse_dates, date_format, resampled, callArg, lastToggle>>

\* the caller appends to the list it holds
CallerAppend ==
    /\ got # NONE
    /\ Len(heap[got]) < Len(TWITTER_DT_columns) + MaxExtra
    /\ \E x \in CallerValues :
          heap' = [heap EXCEPT ![got] = list_append(heap[got], x)]
    /\ before' = heap.internal
    /\ lastOp' = "caller_append"
    /\ dt_exc' = NONE
    /\ UNCHANGED <<got, parse_dates, date_format, resampled, callArg, lastToggle>>

\* the caller removes an entry of the list it holds
CallerRemove ==
    /\ got # NONE
    /\ \E x \in CallerValues \cap Range(heap[got]) :
          heap' = [heap EXCEPT ![got] = list_remove(heap[got], x).list]
    /\ before' = heap.internal
    /\ lastOp' = "caller_remove"
    /\ dt_exc' = NONE
    /\ UNCHANGED <<got, parse_dates, date_format, resampled, callArg, lastToggle>>

\* the caller replaces the first entry of the list it holds
CallerSetItem ==
    /\ got # NONE
    /\ heap[got] # <<>>
    /\ \E x \in CallerValues :
          heap' = [heap EXCEPT ![got][1] = x]
    /\ before' = heap.internal
    /\ lastOp' = "caller_setitem"
    /\ dt_exc' = NONE
    /\ UNCHANGED <<got, parse_dates, date_format, resampled, callArg, lastToggle>>

\* --------------------------------------------------------------------------
\* Data: the loaders
\* --------------------------------------------------------------------------

\* Data.__init__'s default resampled_dir
resampled_dir == "./data/baldwin/resampled/"

\* os.path.join of a directory and a relative file name
op_join(a, b) ==
    IF a = "" \/ SubSeq(a, Len(a), Len(a)) = "/" THEN a \o b
    ELSE a \o "/" \o b

\* Data.read_twitter_csv_df: the parse_dates and date_format it hands to
\* dd.read_csv; parse_dates is read from the property TWITTER_DT.columns
read_twitter_csv_df(h) ==
    LET r == columns([internal |-> h.internal, returned |-> h.returned,
                      temp |-> <<>>], "temp")
    IN  [parse_dates |-> r.heap[r.ref], date_format |-> parse]

\* Data.read_resampled_df: the arguments it hands to pd.read_csv
read_resampled_df(dir, fn, index_col) ==
    [fn |-> op_join(dir, fn), index_col |-> "date", parse_dates |-> TRUE]

\* the default of read_resampled_df's index_col parameter
index_col_default == "date"

\* Data.get_resampled_day_count_df
get_resampled_day_count_df(dir) ==
    read_resampled_df(dir, "day_tweet-count.csv", index_col_default)

\* Data.get_resampled_day_type_count_df
get_resampled_day_type_count_df(dir) ==
    read_resampled_df(dir, "day_type_tweet-count.csv", index_col_default)

\* Data.get_resampled_day_retweet_count_df
get_resampled_day_retweet_count_df(dir) ==
    read_resampled_df(dir, "day_retweet-count.csv", "retweet_date")

ReadTwitterCsv ==
    LET r == read_twitter_csv_df(heap) IN
    /\ parse_dates' = r.parse_dates
    /\ date_format' = r.date_format
    /\ before' = heap.internal
    /\ lastOp' = "read_twitter_csv_df"
    /\ dt_exc' = NONE
    /\ UNCHANGED <<heap, got, resampled, callArg, lastToggle>>

GetResampledDayCount ==
    /\ resampled' = get_resampled_day_count_df(resampled_dir)
    /\ callArg' = index_col_default
    /\ before' = heap.internal
    /\ lastOp' = "get_resampled_day_count_df"
    /\ dt_exc' = NONE
    /\ UNCHANGED <<heap, got, parse_dates, date_format, lastToggle>>

GetResampledDayTypeCount ==
    /\ resampled' = get_resampled_day_type_count_df(resampled_dir)
    /\ callArg' = index_col_default
    /\ before' = heap.internal
    /\ lastOp' = "get_resampled_day_type_count_df"
    /\ dt_exc' = NONE
    /\ UNCHANGED <<heap, got, parse_dates, date_format, lastToggle>>

GetResampledDayRetweetCount ==
    /\ resampled' = get_resampled_day_retweet_count_df(resampled_dir)
    /\ callArg' = "retweet_date"
    /\ before' = heap.internal
    /\ lastOp' = "get_resampled_day_retweet_count_df"
    /\ dt_exc' = NONE
    /\ UNCHANGED <<heap, got, parse_dates, date_format, lastToggle>>

NoRead == [fn |-> "", index_col |-> "", parse_dates |-> FALSE]

InitData ==
    /\ heap = [internal |-> TWITTER_DT_columns, returned |-> <<>>]
    /\ got = NONE
    /\ parse_dates = <<>>
    /\ date_format = ""
    /\ resampled = NoRead
    /\ lastOp = "init"
    /\ lastToggle = NONE
    /\ before = TWITTER_DT_columns
    /\ callArg = ""
    /\ dt_exc = NONE

NextData ==
    \/ InclDate /\ UNCHANGED formatVars
    \/ RemoveDate /\ UNCHANGED formatVars
    \/ Columns /\ UNCHANGED formatVars
    \/ CallerAppend /\ UNCHANGED formatVars
    \/ CallerRemove /\ UNCHANGED formatVars
    \/ CallerSetItem /\ UNCHANGED formatVars
    \/ ReadTwitterCsv /\ UNCHANGED formatVars
    \/ GetResampledDayCount /\ UNCHANGED formatVars
    \/ GetResampledDayTypeCount /\ UNCHANGED formatVars
    \/ GetResampledDayRetweetCount /\ UNCHANGED formatVars

\* --------------------------------------------------------------------------
\* The per-row functions of format_df
\* --------------------------------------------------------------------------

\* the missing-value marker of a cell (NaN / pd.NA)
NA == "<NA>"

\* pd.isna on a scalar cell
isna(v) == v = NA

\* in place of no image
NO_IMAGE == "No image URL"

\* make_tweet_url: tweets is the pair (username, id) of one row
make_tweet_url(tweets) ==
    "https://twitter.com/" \o tweets[1] \o "/status/" \o tweets[2]

\* the texts of attachments.media the model's datasets hold
MEDIA_URL == "[{'media_key': '3_1', 'type': 'photo', 'url': 'http://x/y.png'}]"
MEDIA_TWO == "[{'url': 'http://x/a.jpg'}, {'url': 'http://x/b.jpg'}]"
MEDIA_NO_URL == "[{'media_key': '7_1', 'type': 'video'}]"
MEDIA_EMPTY == "[]"
MEDIA_UNPARSABLE == "[{'url': "

\* ast.literal_eval on those texts: the decoded list of dictionaries, or the
\* exception it raises
literal_eval(text) ==
    CASE text = MEDIA_URL ->
           [exc |-> NONE,
            value |-> << [media_key |-> "3_1", type |-> "photo",
                          url |-> "http://x/y.png"] >>]
      [] text = MEDIA_TWO ->
           [exc |-> NONE,
            value |-> << [url |-> "http://x/a.jpg"], [url |-> "http://x/b.jpg"] >>]
      [] text = MEDIA_NO_URL ->
           [exc |-> NONE, value |-> << [media_key |-> "7_1", type |-> "video"] >>]
      [] text = MEDIA_EMPTY ->
           [exc |-> NONE, value |-> << >>]
      [] OTHER ->
           [exc |-> "SyntaxError", value |-> << >>]

\* dict.get(key, default)
dict_get(d, key, default) == IF key \in DOMAIN d THEN d[key] ELSE default

\* get_image_url: the value returned, or the exception raised
get_image_url(media) ==
    IF ~isna(media)
    THEN LET d == literal_eval(media) IN
         IF d.exc # NONE THEN [exc |-> d.exc, value |-> ""]
         ELSE IF Len(d.value) = 0 THEN [exc |-> "IndexError", value |-> ""]
         ELSE [exc |-> NONE, value |-> dict_get(d.value[1], "url", NO_IMAGE)]
    ELSE [exc |-> NONE, value |-> NO_IMAGE]

\* get_image_html
get_image_html(url) ==
    IF url # NO_IMAGE
    THEN "<a href='" \o url \o "'>'<img src='" \o url \o "' width='500px'></a>"
    ELSE url

find_tweet_type_quote_first(tweet) ==
    IF ~isna(tweet["referenced_tweets.quoted.id"])
    THEN IF ~isna(tweet["referenced_tweets.replied_to.id"])
         THEN "quote/reply"
         ELSE "quote"
    ELSE IF ~isna(tweet["referenced_tweets.retweeted.id"]) THEN "retweet"
    ELSE IF ~isna(tweet["referenced_tweets.replied_to.id"]) THEN "reply"
    ELSE "original"

\* find_tweet_type: tweet is one row
find_tweet_type(tweet) ==
    IF ~isna(tweet["referenced_tweets.retweeted.id"]) THEN "retweet"
    ELSE IF ~isna(tweet["referenced_tweets.quoted.id"])
         THEN IF ~isna(tweet["referenced_tweets.replied_to.id"])
              THEN "quote/reply"
              ELSE "quote"
    ELSE IF ~isna(tweet["referenced_tweets.replied_to.id"]) THEN "reply"
    ELSE "original"

\* --------------------------------------------------------------------------
\* The columns each step of format_df reads
\* --------------------------------------------------------------------------

\* line 41: the username column of the dataset
username_column(cols) ==
    IF "author.username" \in cols THEN "author.username" ELSE "username"

\* df[[username, 'id']]
tweet_url_columns(u) == {u, "id"}

\* df['attachments.media']
media_columns == {"attachments.media"}

\* df['media'], the column get_image_html is applied to
html_columns == {"media"}

find_tweet_type_columns_with_media ==
    {"referenced_tweets.retweeted.id", "referenced_tweets.quoted.id",
     "referenced_tweets.replied_to.id", "media"}

\* the cells of its row that find_tweet_type reads
find_tweet_type_columns ==
    {"referenced_tweets.retweeted.id", "referenced_tweets.quoted.id",
     "referenced_tweets.replied_to.id"}

\* the rename table of df.rename
RENAME ==
    ("author.name" :> "name") @@
    ("author.username" :> "username") @@
    ("author.verified" :> "verified") @@
    ("public_metrics.impression_count" :> "impressions") @@
    ("public_metrics.like_count" :> "likes") @@
    ("public_metrics.quote_count" :> "quotes") @@
    ("public_metrics.reply_count" :> "replies") @@
    ("public_metrics.retweet_count" :> "retweets") @@
    ("author.description" :> "user_bio")

\* the new name of a column under df.rename
renamed(c) == IF c \in DOMAIN RENAME THEN RENAME[c] ELSE c

\* --------------------------------------------------------------------------
\* The steps of format_df on rows
\* --------------------------------------------------------------------------

\* the cells `cs` of a row
Project(row, cs) == [c \in cs |-> row[c]]

\* a row with cell c set to v (the column is added when it is new)
SetCell(row, c, v) ==
    [k \in DOMAIN row \cup {c} |-> IF k = c THEN v ELSE row[k]]

\* the columns a step reads, u being the username column
StepReads(step, u) ==
    CASE step = "tweet_url" -> tweet_url_columns(u)
      [] step = "media" -> media_columns
      [] step = "html" -> html_columns
      [] step = "type" -> find_tweet_type_columns
      [] OTHER -> {}

\* the column a step writes
StepWrites(step) ==
    CASE step = "tweet_url" -> "tweet_url"
      [] step = "media" -> "media"
      [] step = "html" -> "media"
      [] step = "type" -> "type"
      [] step = "tweet_count" -> "tweet_count"

\* one step on one row: the row it makes, or the exception of the per-row
\* function.  The function sees the cells the step reads.
ApplyRow(step, row, u) ==
    LET cells == Project(row, StepReads(step, u)) IN
    CASE step = "tweet_url" ->
           [exc |-> NONE,
            row |-> SetCell(row, "tweet_url",
                            make_tweet_url(<<cells[u], cells["id"]>>))]
      [] step = "media" ->
           LET r == get_image_url(cells["attachments.media"]) IN
           [exc |-> r.exc,
            row |-> IF r.exc = NONE THEN SetCell(row, "media", r.value) ELSE row]
      [] step = "html" ->
           [exc |-> NONE,
            row |-> SetCell(row, "media", get_image_html(cells["media"]))]
      [] step = "type" ->
           [exc |-> NONE, row |-> SetCell(row, "type", find_tweet_type(cells))]
      [] step = "tweet_count" ->
           [exc |-> NONE, row |-> SetCell(row, "tweet_count", 1)]
      [] step = "rename" ->
           [exc |-> NONE,
            row |-> [k \in {renamed(c) : c \in DOMAIN row} |->
                        row[CHOOSE c \in DOMAIN row : renamed(c) = k]]]

\* one step on the rows of a dataset (or of one partition), in row order: the
\* first exception of a per-row function ends it
RECURSIVE ApplyRows(_, _, _)
ApplyRows(step, rows, u) ==
    IF rows = << >> THEN [exc |-> NONE, rows |-> << >>]
    ELSE LET h == ApplyRow(step, Head(rows), u) IN
         IF h.exc # NONE THEN [exc |-> h.exc, rows |-> << >>]
         ELSE LET t == ApplyRows(step, Tail(rows), u) IN
              IF t.exc # NONE THEN t
              ELSE [exc |-> NONE, rows |-> <<h.row>> \o t.rows]

\* the steps of a task graph on the rows of one partition, in order
RECURSIVE ApplyGraph(_, _, _)
ApplyGraph(g, rows, u) ==
    IF g = << >> THEN [exc |-> NONE, rows |-> rows]
    ELSE LET r == ApplyRows(Head(g), rows, u) IN
         IF r.exc # NONE THEN r
         ELSE ApplyGraph(Tail(g), r.rows, u)

\* --------------------------------------------------------------------------
\* The schema map
\* --------------------------------------------------------------------------

\* the dtype names of create_dtypes
object_dtype == "object"
str_dtype == "string"
int_dtype == "Int64"
float_dtype == "Float64"
enum_dtype == "string"
dt_dtype == "object"
bool_dtype == "boolean"

\* create_dtypes: the column-to-dtype dictionary
create_dtypes ==
    ("attachments.media" :> object_dtype) @@
    ("attachments.media_keys" :> object_dtype) @@
    ("attachments.poll.options" :> object_dtype) @@
    ("attachments.poll_ids" :> object_dtype) @@
    ("author.entities.description.cashtags" :> object_dtype) @@
    ("author.entities.description.hashtags" :> object_dtype) @@
    ("author.entities.description.mentions" :> object_dtype) @@
    ("author.entities.description.urls" :> object_dtype) @@
    ("author.entities.url.urls" :> object_dtype) @@
    ("author.withheld.country_codes" :> object_dtype) @@
    ("context_annotations" :> object_dtype) @@
    ("edit_history_tweet_ids" :> object_dtype) @@
    ("entities.annotations" :> object_dtype) @@
    ("entities.cashtags" :> object_dtype) @@
    ("entities.hashtags" :> object_dtype) @@
    ("entities.mentions" :> object_dtype) @@
    ("entities.urls" :> object_dtype) @@
    ("geo.coordinates.coordinates" :> object_dtype) @@
    ("geo.geo.bbox" :> object_dtype) @@
    ("matching_rules" :> object_dtype) @@
    ("withheld.country_codes" :> object_dtype) @@
    ("Unnamed: 78" :> object_dtype) @@
    ("attachments.poll.id" :> str_dtype) @@
    ("attachments.poll.voting_status" :> str_dtype) @@
    ("author.description" :> str_dtype) @@
    ("author.id" :> str_dtype) @@
    ("author.location" :> str_dtype) @@
    ("author.name" :> str_dtype) @@
    ("author.pinned_tweet_id" :> str_dtype) @@
    ("author.profile_image_url" :> str_dtype) @@
    ("author.url" :> str_dtype) @@
    ("author.username" :> str_dtype) @@
    ("author_id" :> str_dtype) @@
    ("conversation_id" :> str_dtype) @@
    ("geo.coordinates.type" :> str_dtype) @@
    ("geo.country" :> str_dtype) @@
    ("geo.country_code" :> str_dtype) @@
    ("geo.full_name" :> str_dtype) @@
    ("geo.geo.type" :> str_dtype) @@
    ("geo.id" :> str_dtype) @@
    ("geo.name" :> str_dtype) @@
    ("geo.place_id" :> str_dtype) @@
    ("geo.place_type" :> str_dtype) @@
    ("id" :> str_dtype) @@
    ("in_reply_to_user_id" :> str_dtype) @@
    ("lang" :> str_dtype) @@
    ("quoted_user_id" :> str_dtype) @@
    ("referenced_tweets.quoted.id" :> str_dtype) @@
    ("referenced_tweets.replied_to.id" :> str_dtype) @@
    ("referenced_tweets.retweeted.id" :> str_dtype) @@
    ("reply_settings" :> str_dtype) @@
    ("retweeted_user_id" :> str_dtype) @@
    ("source" :> str_dtype) @@
    ("text" :> str_dtype) @@
    ("__twarc.url" :> str_dtype) @@
    ("__twarc.version" :> str_dtype) @@
    ("media" :> str_dtype) @@
    ("tweet_url" :> str_dtype) @@
    ("username" :> str_dtype) @@
    ("user_bio" :> str_dtype) @@
    ("attachments.poll.duration_minutes" :> float_dtype) @@
    ("author.public_metrics.followers_count" :> int_dtype) @@
    ("author.public_metrics.following_count" :> int_dtype) @@
    ("author.public_metrics.listed_count" :> int_dtype) @@
    ("author.public_metrics.tweet_count" :> int_dtype) @@
    ("edit_controls.edits_remaining" :> int_dtype) @@
    ("public_metrics.impression_count" :> int_dtype) @@
    ("public_metrics.like_count" :> int_dtype) @@
    ("public_metrics.quote_count" :> int_dtype) @@
    ("public_metrics.reply_count" :> int_dtype) @@
    ("public_metrics.retweet_count" :> int_dtype) @@
    ("tweet_count" :> int_dtype) @@
    ("likes" :> int_dtype) @@
    ("quotes" :> int_dtype) @@
    ("replies" :> int_dtype) @@
    ("retweets" :> int_dtype) @@
    ("author.protected" :> bool_dtype) @@
    ("author.verified" :> bool_dtype) @@
    ("author.withheld.copyright" :> bool_dtype) @@
    ("edit_controls.is_edit_eligible" :> bool_dtype) @@
    ("possibly_sensitive" :> bool_dtype) @@
    ("withheld.copyright" :> bool_dtype) @@
    ("verified" :> bool_dtype) @@
    ("author.withheld.scope" :> enum_dtype) @@
    ("withheld.scope" :> enum_dtype) @@
    ("type" :> enum_dtype) @@
    ("attachments.poll.end_datetime" :> dt_dtype) @@
    ("author.created_at" :> dt_dtype) @@
    ("created_at" :> dt_dtype) @@
    ("edit_controls.editable_until" :> dt_dtype) @@
    ("__twarc.retrieved_at" :> dt_dtype) @@
    ("date" :> dt_dtype)

\* TWITTER_DTYPES = create_dtypes()
TWITTER_DTYPES == create_dtypes

\* --------------------------------------------------------------------------
\* The datasets format_df is called on
\* --------------------------------------------------------------------------

\* the columns of a dataset read from a twarc CSV export (those format_df
\* names, and two it passes through)
RawColumns ==
    {"id", "text", "created_at", "attachments.media",
     "referenced_tweets.retweeted.id", "referenced_tweets.quoted.id",
     "referenced_tweets.replied_to.id",
     "author.name", "author.username", "author.verified", "author.description",
     "public_metrics.impression_count", "public_metrics.like_count",
     "public_metrics.quote_count", "public_metrics.reply_count",
     "public_metrics.retweet_count"}

\* the columns of a dataset that has no 'author.username' column, only the
\* flat 'username'
FlatColumns ==
    {"id", "text", "created_at", "attachments.media",
     "referenced_tweets.retweeted.id", "referenced_tweets.quoted.id",
     "referenced_tweets.replied_to.id", "username"}

Shapes == {RawColumns, FlatColumns}

MediaValues ==
    {NA, MEDIA_URL, MEDIA_TWO, MEDIA_NO_URL, MEDIA_EMPTY, MEDIA_UNPARSABLE}

\* the values of the three referenced-tweet id cells of a row
RefValues == [find_tweet_type_columns -> {NA, "1640000000000000000"}]

NoRefs == [c \in find_tweet_type_columns |-> NA]

\* the rows of the model's datasets: every media text (on an original tweet)
\* and every combination of the three ids (on a tweet without media)
RowKinds ==
    {[media |-> m, refs |-> NoRefs] : m \in MediaValues}
        \cup {[media |-> NA, refs |-> t] : t \in RefValues}

\* row i of a dataset with columns cols
MakeRow(cols, i, kind) ==
    [c \in cols |->
        IF c = "attachments.media" THEN kind.media
        ELSE IF c \in find_tweet_type_columns THEN kind.refs[c]
        ELSE IF c = "id" THEN ToString(1000 + i)
        ELSE IF c \in {"author.username", "username"} THEN "user" \o ToString(i)
        ELSE c \o "#" \o ToString(i)]

\* --------------------------------------------------------------------------
\* format_df, step by step
\* --------------------------------------------------------------------------

\* `reads` with the entry of a step that runs now: the columns it reads, the
\* columns written before it in this pass, the column it writes
Logged(step) ==
    Append(reads, [step |-> step,
                   reads |-> StepReads(step, username),
                   written |-> {reads[i].writes : i \in DOMAIN reads},
                   writes |-> StepWrites(step)])

\* Dask: the step joins the task graph and the column joins the metadata;
\* no per-row function runs
Lazy(step, next) ==
    /\ backend = "dask"
    /\ graph' = Append(graph, step)
    /\ df' = [df EXCEPT !.cols = df.cols \cup {StepWrites(step)}]
    /\ reads' = Logged(step)
    /\ pc' = next
    /\ UNCHANGED <<backend, incl_html, input, exc, username, result, eager>>

\* Pandas: the step runs on every row now; an exception of the per-row
\* function leaves format_df
Eager(step, next) ==
    LET r == ApplyRows(step, df.rows, username) IN
    /\ backend = "pandas"
    /\ reads' = Logged(step)
    /\ IF r.exc = NONE
       THEN /\ df' = [cols |-> df.cols \cup {StepWrites(step)}, rows |-> r.rows]
            /\ pc' = next
            /\ exc' = NONE
       ELSE /\ df' = df
            /\ pc' = "raised"
            /\ exc' = r.exc
    /\ UNCHANGED <<backend, incl_html, input, graph, username, result, eager>>

\* line 41
ChooseUsername ==
    /\ pc = "start"
    /\ username' = username_column(df.cols)
    /\ pc' = "try_tweet_url"
    /\ UNCHANGED <<backend, incl_html, input, df, graph, exc, reads, result, eager>>

\* lines 42-46 on a Dask dataframe
TryTweetUrl ==
    /\ pc = "try_tweet_url"
    /\ Lazy("tweet_url", "try_media")

\* lines 42-46 on a Pandas dataframe: DataFrame.apply hands meta= on to
\* make_tweet_url, which raises TypeError on the first row; line 69 catches
\* it.  Nothing has been assigned yet, and username is already bound.
\* (Datasets here have at least one row: on an empty frame apply calls no
\* per-row function.)
TryTweetUrlTypeError ==
    /\ pc = "try_tweet_url"
    /\ backend = "pandas"
    /\ df.rows # << >>
    /\ pc' = "except_tweet_url"
    /\ UNCHANGED <<backend, incl_html, input, df, graph, exc, username, reads,
                   result, eager>>

\* lines 49-52
TryMedia ==
    /\ pc = "try_media"
    /\ Lazy("media", IF incl_html THEN "try_html" ELSE "try_type")

\* lines 55-59
TryHtml ==
    /\ pc = "try_html"
    /\ Lazy("html", "try_type")

\* lines 62-66
TryType ==
    /\ pc = "try_type"
    /\ Lazy("type", "tweet_count")

\* line 72
ExceptTweetUrl ==
    /\ pc = "except_tweet_url"
    /\ Eager("tweet_url", "except_media")

\* line 75
ExceptMedia ==
    /\ pc = "except_media"
    /\ Eager("media", IF incl_html THEN "except_html" ELSE "except_type")

\* lines 78-79
ExceptHtml ==
    /\ pc = "except_html"
    /\ Eager("html", "except_type")

\* line 82
ExceptType ==
    /\ pc = "except_type"
    /\ Eager("type", "tweet_count")

\* line 85 on a Pandas dataframe
AddTweetCount ==
    /\ pc = "tweet_count"
    /\ backend = "pandas"
    /\ df' = [cols |-> df.cols \cup {"tweet_count"},
              rows |-> ApplyRows("tweet_count", df.rows, username).rows]
    /\ pc' = "rename"
    /\ UNCHANGED <<backend, incl_html, input, graph, exc, username, reads,
                   result, eager>>

\* line 85 on a Dask dataframe
AddTweetCountLazy ==
    /\ pc = "tweet_count"
    /\ backend = "dask"
    /\ graph' = Append(graph, "tweet_count")
    /\ df' = [df EXCEPT !.cols = df.cols \cup {"tweet_count"}]
    /\ pc' = "rename"
    /\ UNCHANGED <<backend, incl_html, input, exc, username, reads, result, eager>>

\* lines 88-104 on a Pandas dataframe: the renamed dataset is returned
Rename ==
    /\ pc = "rename"
    /\ backend = "pandas"
    /\ df' = [cols |-> {renamed(c) : c \in df.cols},
              rows |-> ApplyRows("rename", df.rows, username).rows]
    /\ result' = df'.rows
    /\ pc' = "returned"
    /\ UNCHANGED <<backend, incl_html, input, graph, exc, username, reads, eager>>

\* lines 88-104 on a Dask dataframe: the renamed, unevaluated dataset is
\* returned
RenameLazy ==
    /\ pc = "rename"
    /\ backend = "dask"
    /\ graph' = Append(graph, "rename")
    /\ df' = [df EXCEPT !.cols = {renamed(c) : c \in df.cols}]
    /\ pc' = "returned"
    /\ UNCHANGED <<backend, incl_html, input, exc, username, reads, result, eager>>

\* the caller evaluates the Dask dataset format_df returned: the graph runs
\* on each of its partitions (the rows up to k, and the rest); an exception
\* of a per-row function in either partition leaves compute()
Compute ==
    /\ pc = "returned"
    /\ backend = "dask"
    /\ \E k \in 0 .. Len(df.rows) - 1 :
          LET p1 == ApplyGraph(graph, SubSeq(df.rows, 1, k), username)
              p2 == ApplyGraph(graph, SubSeq(df.rows, k + 1, Len(df.rows)),
                               username)
          IN  IF p1.exc = NONE /\ p2.exc = NONE
              THEN /\ result' = p1.rows \o p2.rows
                   /\ exc' = NONE
              ELSE /\ result' = << >>
                   /\ exc' \in {p1.exc, p2.exc} \ {NONE}
    /\ pc' = "computed"
    /\ UNCHANGED <<backend, incl_html, input, df, graph, username, reads, eager>>

\* what a finished format_df call on a Pandas dataframe gave its caller
EagerOutcome ==
    [returned |-> pc = "returned",
     exc |-> exc,
     cols |-> IF pc = "returned" THEN df.cols ELSE {},
     rows |-> IF pc = "returned" THEN result ELSE << >>]

\* what a format_df call on a Dask dataframe, and the evaluation of the
\* dataset it returned, gave the caller
LazyOutcome ==
    [returned |-> TRUE, exc |-> exc, cols |-> df.cols, rows |-> result]

NoOutcome == [returned |-> FALSE, exc |-> NONE, cols |-> {}, rows |-> << >>]

\* the caller, after the Pandas pass, loads the same rows into a Dask
\* dataframe and calls format_df on it with the same incl_html
CallOnDask ==
    /\ backend = "pandas"
    /\ pc \in {"returned", "raised"}
    /\ eager' = EagerOutcome
    /\ backend' = "dask"
    /\ df' = input
    /\ graph' = << >>
    /\ pc' = "start"
    /\ exc' = NONE
    /\ username' = ""
    /\ reads' = << >>
    /\ result' = << >>
    /\ UNCHANGED <<incl_html, input>>

InitFormat ==
    /\ backend = "pandas"
    /\ incl_html \in BOOLEAN
    /\ \E cols \in Shapes, n \in 1 .. MaxRows :
          \E kinds \in [1 .. n -> RowKinds] :
             input = [cols |-> cols,
                      rows |-> [i \in 1 .. n |-> MakeRow(cols, i, kinds[i])]]
    /\ df = input
    /\ graph = << >>
    /\ pc = "start"
    /\ exc = NONE
    /\ username = ""
    /\ reads = << >>
    /\ result = << >>
    /\ eager = NoOutcome

NextFormat ==
    \/ ChooseUsername /\ UNCHANGED dataVars
    \/ TryTweetUrl /\ UNCHANGED dataVars
    \/ TryTweetUrlTypeError /\ UNCHANGED dataVars
    \/ TryMedia /\ UNCHANGED dataVars
    \/ TryHtml /\ UNCHANGED dataVars
    \/ TryType /\ UNCHANGED dataVars
    \/ ExceptTweetUrl /\ UNCHANGED dataVars
    \/ ExceptMedia /\ UNCHANGED dataVars
    \/ ExceptHtml /\ UNCHANGED dataVars
    \/ ExceptType /\ UNCHANGED dataVars
    \/ AddTweetCount /\ UNCHANGED dataVars
    \/ AddTweetCountLazy /\ UNCHANGED dataVars
    \/ Rename /\ UNCHANGED dataVars
    \/ RenameLazy /\ UNCHANGED dataVars
    \/ Compute /\ UNCHANGED dataVars
    \/ CallOnDask /\ UNCHANGED dataVars

\* a format_df pass, with TWITTER_DT and Data as the module leaves them
InitFormatPass == InitFormat /\ InitData

SpecFormat == InitFormatPass /\ [][NextFormat]_vars

IdleFormat ==
    /\ backend = "pandas"
    /\ incl_html = FALSE
    /\ input = [cols |-> {}, rows |-> <<>>]
    /\ df = [cols |-> {}, rows |-> <<>>]
    /\ graph = <<>>
    /\ pc = "idle"
    /\ exc = NONE
    /\ username = ""
    /\ reads = <<>>
    /\ result = <<>>
    /\ eager = NoOutcome

\* TWITTER_DT and Data in use, with no format_df call under way
InitDataUse == InitData /\ IdleFormat

SpecData == InitDataUse /\ [][NextData]_vars

\* --------------------------------------------------------------------------
\* Properties of format_df (checked under SpecFormat)
\* --------------------------------------------------------------------------

\* the rows whose 'type' cell has been computed
TypedRows ==
    IF backend = "pandas" /\ "type" \in df.cols THEN df.rows
    ELSE IF backend = "dask" /\ pc = "computed" THEN result
    ELSE << >>

\* the label the precedence rule gives, rt, q and rp saying whether the
\* retweeted, quoted and replied-to ids are present
PrecedenceLabel(rt, q, rp) ==
    CASE rt -> "retweet"
      [] ~rt /\ q /\ rp -> "quote/reply"
      [] ~rt /\ q /\ ~rp -> "quote"
      [] ~rt /\ ~q /\ rp -> "reply"
      [] ~rt /\ ~q /\ ~rp -> "original"

\* C1: for each of the 8 present/absent combinations of the retweeted,
\* quoted and replied-to ids, the 'type' cell find_tweet_type wrote is the one
\* label of the precedence rule: retweet, else quote/reply, else quote, else
\* reply, else original.
C1_TweetTypePrecedence ==
    \A i \in DOMAIN TypedRows :
        TypedRows[i]["type"] =
            PrecedenceLabel(input.rows[i]["referenced_tweets.retweeted.id"] # NA,
                            input.rows[i]["referenced_tweets.quoted.id"] # NA,
                            input.rows[i]["referenced_tweets.replied_to.id"] # NA)

\* a typed row with all three ids present: the retweet check wins
C1_Witness ==
    \E i \in DOMAIN TypedRows :
        /\ input.rows[i]["referenced_tweets.retweeted.id"] # NA
        /\ input.rows[i]["referenced_tweets.quoted.id"] # NA
        /\ input.rows[i]["referenced_tweets.replied_to.id"] # NA
        /\ TypedRows[i]["type"] = "retweet"

\* the media URL the claim gives for a raw attachments.media value: the url
\* of the first decoded record when there is one, the sentinel otherwise
SentinelOrUrl(raw) ==
    IF raw = NA THEN NO_IMAGE
    ELSE LET d == literal_eval(raw) IN
         IF d.exc = NONE /\ d.value # << >> /\ "url" \in DOMAIN d.value[1]
         THEN d.value[1]["url"]
         ELSE NO_IMAGE

\* the rows whose 'media' cell holds what get_image_url returned
MediaUrlRows ==
    IF backend = "pandas" /\ pc \in {"except_html", "except_type"}
         /\ "type" \notin df.cols /\ (pc = "except_type" => ~incl_html)
    THEN df.rows
    ELSE IF backend = "dask" /\ pc = "computed" /\ ~incl_html THEN result
    ELSE << >>

\* C2: get_image_url never raises, and returns the url of the first decoded
\* media record when that exists and the sentinel "No image URL" in every
\* other case (missing, undecodable, empty list, no url field).
C2_GetImageUrlNeverRaises ==
    /\ exc = NONE
    /\ pc # "raised"
    /\ \A i \in DOMAIN MediaUrlRows :
          MediaUrlRows[i]["media"] = SentinelOrUrl(input.rows[i]["attachments.media"])

\* C6: every column that exists only after format_df (the derived columns
\* and the targets of the rename table) has an entry in TWITTER_DTYPES.
C6_SchemaCoversFormattedColumns ==
    pc \in {"returned", "computed"} =>
        (df.cols \ input.cols) \subseteq DOMAIN TWITTER_DTYPES

DerivedColumns == {"tweet_url", "media", "type", "tweet_count"}

\* C8: the Pandas pass and the Dask pass over the same rows with the same
\* incl_html give the caller a dataset with the same renamed columns and the
\* same tweet_url, media, type and tweet_count cells in every row, also when
\* a per-row function fails during the pass.
C8_BackendIndependent ==
    (backend = "dask" /\ pc = "computed") =>
        /\ eager.returned
        /\ eager.exc = exc
        /\ eager.cols = df.cols
        /\ Len(eager.rows) = Len(result)
        /\ \A i \in DOMAIN result : \A c \in DerivedColumns :
              eager.rows[i][c] = result[i][c]

\* C9 as stated: every step that computes a derived column reads only
\* columns of the input dataset, never one written earlier in the same pass,
\* for either value of incl_html.
C9_StepsReadOnlyInputColumns ==
    \A i \in DOMAIN reads :
        /\ reads[i].reads \subseteq input.cols
        /\ reads[i].reads \cap reads[i].written = {}

\* C9, amended: the tweet URL, media URL and tweet type steps read only
\* columns of the input dataset, never one written earlier in the same pass;
\* the media HTML step, which runs only with incl_html, reads exactly the
\* 'media' column, written by the media URL step right before it.
C9_OnlyHtmlReadsADerivedColumn ==
    \A i \in DOMAIN reads :
        IF reads[i].step = "html"
        THEN /\ incl_html
             /\ reads[i].reads = {"media"}
             /\ i > 1
             /\ reads[i - 1].step = "media"
             /\ reads[i - 1].writes = "media"
        ELSE /\ reads[i].reads \subseteq input.cols
             /\ reads[i].reads \cap reads[i].written = {}

\* a finished pass with incl_html: all four steps have read their columns
C9_Witness ==
    /\ incl_html
    /\ pc \in {"returned", "computed"}
    /\ Len(reads) = 4
    /\ reads[3].step = "html"
    /\ reads[4].step = "type"

\* --------------------------------------------------------------------------
\* Properties of TWITTER_DT and Data (checked under SpecData)
\* --------------------------------------------------------------------------

\* the number of entries of s equal to x
RECURSIVE Count(_, _)
Count(s, x) ==
    IF s = << >> THEN 0
    ELSE (IF Head(s) = x THEN 1 ELSE 0) + Count(Tail(s), x)

\* C3: after any sequence of incl_date and remove_date calls the tracked
\* list holds 'date' at most once (incl_date is idempotent).
C3_AtMostOneDate == Count(heap.internal, "date") <= 1

\* C4: remove_date on a list without 'date' raises nothing and leaves the
\* list as it was, the five fixed columns present in their order.
C4_RemoveAbsentDateIsNoOp ==
    (lastOp = "remove_date" /\ "date" \notin Range(before)) =>
        /\ dt_exc = NONE
        /\ heap.internal = before
        /\ SubSeq(heap.internal, 1, 5) = TWITTER_DT_columns

\* remove_date has just run on a list without 'date'
C4_Witness == lastOp = "remove_date" /\ "date" \notin Range(before)

CallerOps == {"caller_append", "caller_remove", "caller_setitem"}

\* C5: TWITTER_DT.columns returns a copy: a caller's append, remove or
\* replacement on a returned list leaves cls._columns as it was, and every
\* columns access returns the entries of cls._columns.
C5_ColumnsIsACopy ==
    /\ lastOp \in CallerOps => heap.internal = before
    /\ lastOp = "columns" => heap[got] = heap.internal
    /\ lastOp = "read_twitter_csv_df" => parse_dates = heap.internal

\* the caller has changed the list it holds, which now differs from
\* cls._columns
C5_Witness ==
    /\ lastOp \in CallerOps
    /\ got # NONE
    /\ heap[got] # heap.internal

ResampledLoaders ==
    {"get_resampled_day_count_df", "get_resampled_day_type_count_df",
     "get_resampled_day_retweet_count_df"}

\* C7: each resampled-CSV loader indexes its result by the index_col it
\* gives read_resampled_df: 'date' for the day and day-type counts,
\* 'retweet_date' for the day retweet counts.
C7_IndexColIsUsed ==
    lastOp \in ResampledLoaders =>
        /\ resampled.index_col = callArg
        /\ lastOp = "get_resampled_day_retweet_count_df" =>
              resampled.index_col = "retweet_date"

\* C10: when the last of the incl_date and remove_date calls was remove_date,
\* 'date' is not in the tracked list and a load does not parse it; when it
\* was incl_date, 'date' is in the list and a load parses it; the five fixed
\* columns are parsed in both cases.
C10_LastToggleDecidesDateParsing ==
    /\ lastToggle = "remove_date" => "date" \notin Range(heap.internal)
    /\ lastToggle = "incl_date" => "date" \in Range(heap.internal)
    /\ lastOp = "read_twitter_csv_df" =>
          /\ Range(TWITTER_DT_columns) \subseteq Range(parse_dates)
          /\ lastToggle = "remove_date" => "date" \notin Range(parse_dates)
          /\ lastToggle = "incl_date" => "date" \in Range(parse_dates)

====
